---- MODULE Spec2Model ----
(***************************************************************************)
(* Adaptive collection loop of the Spotify data agent.                     *)
(*                                                                         *)
(* Two scripts share the SpotifyDataAgent state (data_store,               *)
(* collection_stats, delay_multiplier):                                    *)
(*   aiagent.py                     run_collection (real fetches)          *)
(*   spotify_agent_with_reports.py  collect_data   (synthetic records)     *)
(* The variable `script` says which of the two is running.                 *)
(*                                                                         *)
(* Floats are modelled as exact rationals [num, den] in lowest terms.      *)
(* Every comparison the code makes is between a quotient of two small      *)
(* integers and one of 0.5, 0.8, 0.9, where correctly rounded division     *)
(* and the exact quotient order the same way.                              *)
(***************************************************************************)
EXTENDS Integers, Sequences, FiniteSets, TLC

\* ------------------------------------------------------------------ bounds
MaxRequests == 2     \* largest MAX_REQUESTS / n explored
MaxItems == 2        \* most items in one albums.items page

\* ---------------------------------------------------------------- rationals
RECURSIVE GCD(_, _)
GCD(a, b) == IF b = 0 THEN a ELSE GCD(b, a % b)

Rat(n, d) == LET g == GCD(n, d) IN [num |-> n \div g, den |-> d \div g]

RMul(p, q) == Rat(p.num * q.num, p.den * q.den)

RLess(p, q) == p.num * q.den < q.num * p.den

RLeq(p, q) == p.num * q.den <= q.num * p.den

Zero == Rat(0, 1)

One == Rat(1, 1)

\* ------------------------------------------------------- program constants
InitialDelayMultiplier == Rat(1, 1)

AdjustGuard == Rat(8, 10)

BackoffThreshold == Rat(5, 10)

SpeedupThreshold == Rat(9, 10)

BackoffFactor == Rat(2, 1)

SpeedupFactor == Rat(8, 10)

JitterLow == Rat(5, 10)

JitterHigh == Rat(15, 10)

\* values random.uniform(0.5, 1.5) can return (both ends included)
Jitters == {JitterLow, Rat(1, 1), JitterHigh}

\* values of BASE_DELAY explored: 0, the default 1.0, and 2.5
BaseDelays == {Rat(0, 1), Rat(1, 1), Rat(5, 2)}

\* ------------------------------------------------------------ raw payloads
Artist == [name |-> "a1"]

GoodItemA == [name |-> "n1", artists |-> <<Artist>>, id |-> "i1"]

GoodItemB == [name |-> "n1", artists |-> <<Artist>>, id |-> "i2"]

ItemNoName == [artists |-> <<Artist>>, id |-> "i1"]

ItemNoId == [name |-> "n1", artists |-> <<Artist>>]

ItemNoArtists == [name |-> "n1", id |-> "i1"]

ItemEmptyArtists == [name |-> "n1", artists |-> <<>>, id |-> "i1"]

ItemArtistNoName == [name |-> "n1", artists |-> <<[id |-> "x"]>>, id |-> "i1"]

RawItems == {GoodItemA, GoodItemB, ItemNoName, ItemNoId, ItemNoArtists,
             ItemEmptyArtists, ItemArtistNoName}

ItemSeqs == UNION {[1..n -> RawItems] : n \in 0..MaxItems}

\* Python None: what collect_batch returns on failure, and JSON null
None == [kind |-> "null", items |-> <<>>]

\* JSON values response.json() can return:
\*   null, {}, a dict without "albums", {"albums": {"items": [...]}},
\*   and a non-empty JSON array (a value without .get)
Payloads == {None,
             [kind |-> "emptydict", items |-> <<>>],
             [kind |-> "noalbums", items |-> <<>>],
             [kind |-> "list", items |-> <<>>]}
            \cup {[kind |-> "albums", items |-> s] : s \in ItemSeqs}

Truthy(d) == d.kind \in {"noalbums", "albums", "list"}

FetchOutcomes == {"ok200", "undecodable200", "status", "exception"}

NoToken == "None"

NoDelay == [num |-> -1, den |-> 1]

VARIABLES
    script,               \* "aiagent" or "reports"
    pc,                   \* position in run_collection / collect_data
    max_requests,         \* self.max_requests, or n of collect_data
    base_delay,           \* self.base_delay
    token,                \* local `token`
    data_store,           \* self.data_store
    total_requests,       \* collection_stats['total_requests']
    successful_requests,  \* collection_stats['successful_requests']
    failed_requests,      \* collection_stats['failed_requests']
    quality_scores,       \* collection_stats['quality_scores']
    delay_multiplier,     \* self.delay_multiplier
    data,                 \* local `data` of run_collection
    delay,                \* local `delay` of respectful_delay while sleeping
    i,                    \* loop index of collect_data
    iterations,           \* history: completed loop iterations
    pre,                  \* history: agent state when the iteration began
    hist,                 \* history: one tag per fetch issued
    headers,              \* local `headers` of run_collection (the bearer)
    token_requests,       \* history: calls of get_token
    fetch_headers,        \* history: bearer values sent with a fetch
    assessed,             \* history: calls of assess_performance
    delayed               \* history: calls of time.sleep

vars == <<script, pc, max_requests, base_delay, token, data_store,
          total_requests, successful_requests, failed_requests,
          quality_scores, delay_multiplier, data, delay, i,
          iterations, pre, hist, headers, token_requests, fetch_headers,
          assessed, delayed>>

stats == <<total_requests, successful_requests, failed_requests>>

Snapshot == [total |-> total_requests, succ |-> successful_requests,
             failed |-> failed_requests, store |-> data_store,
             dm |-> delay_multiplier]

\* ------------------------------------------------------------------- Init
Init ==
    /\ script \in {"aiagent", "reports"}
    /\ pc = "start"
    /\ max_requests \in 0..MaxRequests
    /\ base_delay \in (IF script = "aiagent" THEN BaseDelays ELSE {One})
    /\ token = NoToken
    /\ data_store = <<>>
    /\ total_requests = 0
    /\ successful_requests = 0
    /\ failed_requests = 0
    /\ quality_scores = <<>>
    /\ delay_multiplier = InitialDelayMultiplier
    /\ data = None
    /\ delay = NoDelay
    /\ i = 0
    /\ iterations = 0
    /\ pre = Snapshot
    /\ hist = <<>>
    /\ headers = NoToken
    /\ token_requests = 0
    /\ fetch_headers = {}
    /\ assessed = 0
    /\ delayed = 0

\* ------------------------------------------------------- pure operations
WellFormed(a) ==
    /\ "name" \in DOMAIN a
    /\ "artists" \in DOMAIN a
    /\ Len(a.artists) >= 1
    /\ "name" \in DOMAIN a.artists[1]
    /\ "id" \in DOMAIN a

\* process_data: a list comprehension over albums.items; any missing key or
\* empty artists list raises (KeyError / IndexError), a payload without
\* .get raises AttributeError.  No partial result survives a raise.
process_data(d) ==
    IF d.kind = "list" THEN [raised |-> TRUE, records |-> <<>>]
    ELSE IF d.kind = "albums"
    THEN IF \A k \in 1..Len(d.items) : WellFormed(d.items[k])
         THEN [raised |-> FALSE,
               records |-> [k \in 1..Len(d.items) |->
                              [name |-> d.items[k].name,
                               artist |-> d.items[k].artists[1].name,
                               id |-> d.items[k].id]]]
         ELSE [raised |-> TRUE, records |-> <<>>]
    ELSE [raised |-> FALSE, records |-> <<>>]

Complete(r) == "name" \in DOMAIN r /\ "artist" \in DOMAIN r

validate_data(recs) == \A k \in 1..Len(recs) : Complete(recs[k])

\* mutant: records whose id is already stored are dropped
store_data_dedup(store, recs) ==
    LET Fresh(r) == \A k \in 1..Len(store) : store[k].id # r.id
    IN store \o SelectSeq(recs, Fresh)

\* mutant: assignment instead of extend
store_data_replace(store, recs) == recs

store_data(store, recs) == store \o recs

get_success_rate(total, succ) == IF total > 0 THEN Rat(succ, total) ELSE Zero

collection_complete == total_requests >= max_requests

\* mutant: completeness tested on the raw key `artists`
assess_data_quality_wrong_key(store, scores) ==
    IF store = <<>>
    THEN [score |-> Zero, scores |-> scores]
    ELSE LET complete_items == Cardinality({k \in 1..Len(store) :
                 "name" \in DOMAIN store[k] /\ "artists" \in DOMAIN store[k]})
             score == Rat(complete_items, Len(store))
         IN [score |-> score, scores |-> Append(scores, score)]

\* assess_data_quality: the early return on an empty store comes before
\* the append
assess_data_quality(store, scores) ==
    IF store = <<>>
    THEN [score |-> Zero, scores |-> scores]
    ELSE LET complete_items == Cardinality({k \in 1..Len(store) : Complete(store[k])})
             score == Rat(complete_items, Len(store))
         IN [score |-> score, scores |-> Append(scores, score)]

\* mutant: the two factors swapped
adjust_strategy_swapped(dm, rate) ==
    IF RLess(rate, BackoffThreshold) THEN RMul(dm, SpeedupFactor)
    ELSE IF RLess(SpeedupThreshold, rate) THEN RMul(dm, BackoffFactor)
    ELSE dm

adjust_strategy(dm, rate) ==
    IF RLess(rate, BackoffThreshold) THEN RMul(dm, BackoffFactor)
    ELSE IF RLess(SpeedupThreshold, rate) THEN RMul(dm, SpeedupFactor)
    ELSE dm

\* mutant: adjust_strategy called whatever the success rate
assess_performance_multiplier_unguarded(dm, rate) == adjust_strategy(dm, rate)

assess_performance_multiplier(dm, rate) ==
    IF RLess(rate, AdjustGuard) THEN adjust_strategy(dm, rate) ELSE dm

\* mutant: the multiplier left out of the product
computeDelay_no_multiplier(base, dm, jitter) == RMul(base, jitter)

computeDelay(base, dm, jitter) == RMul(RMul(base, dm), jitter)

\* ------------------------------------------------------ aiagent.py actions
\* mutant: a failed fetch sends the loop back for a fresh token
GetToken_refresh ==
    /\ script = "aiagent"
    /\ \/ pc = "start"
       \/ /\ pc = "loop"
          /\ hist # <<>>
          /\ hist[Len(hist)] \in {"status", "exception"}
          /\ token_requests <= total_requests
    /\ \E tok \in {"tok", NoToken} :
         /\ token' = tok
         /\ pc' = IF tok # NoToken THEN "loop" ELSE "aborted"
         /\ headers' = IF tok # NoToken THEN tok ELSE headers
    /\ token_requests' = token_requests + 1
    /\ UNCHANGED <<fetch_headers, assessed, delayed>>
    /\ UNCHANGED <<script, max_requests, base_delay, data_store, stats,
                   quality_scores, delay_multiplier, data, delay, i,
                   iterations, pre, hist>>

\* run_collection, lines 86-91
\* mutant: the `if not token` guard dropped
GetTokenProceeds_always(tok) == TRUE

GetTokenProceeds(tok) == tok # NoToken

GetToken ==
    /\ script = "aiagent"
    /\ pc = "start"
    /\ \E tok \in {"tok", NoToken} :
         /\ token' = tok
         /\ pc' = IF GetTokenProceeds(tok) THEN "loop" ELSE "aborted"
         /\ headers' = IF GetTokenProceeds(tok) THEN tok ELSE headers
    /\ token_requests' = token_requests + 1
    /\ UNCHANGED <<fetch_headers, assessed, delayed>>
    /\ UNCHANGED <<script, max_requests, base_delay, data_store, stats,
                   quality_scores, delay_multiplier, data, delay, i,
                   iterations, pre, hist>>

HistTag(outcome, payload) ==
    IF outcome = "ok200"
    THEN IF payload.kind = "albums" /\ Len(payload.items) = 1
            /\ WellFormed(payload.items[1])
         THEN "single_valid" ELSE "ok_other"
    ELSE outcome

\* mutant: a non-200 status counted as a success
CollectBatchCounts_status_as_success(outcome, succ, failed) ==
    CASE outcome \in {"ok200", "status"} -> [succ |-> succ + 1, failed |-> failed]
      [] outcome = "undecodable200" -> [succ |-> succ + 1, failed |-> failed + 1]
      [] OTHER -> [succ |-> succ, failed |-> failed + 1]

\* mutant: the except clause takes back a success that was never counted
CollectBatchCounts_rollback(outcome, succ, failed) ==
    CASE outcome = "ok200" -> [succ |-> succ + 1, failed |-> failed]
      [] outcome = "undecodable200" -> [succ |-> succ, failed |-> failed + 1]
      [] outcome = "status" -> [succ |-> succ, failed |-> failed + 1]
      [] OTHER -> [succ |-> succ - 1, failed |-> failed + 1]

\* mutant: a transport exception is logged but not counted
CollectBatchCounts_exception_uncounted(outcome, succ, failed) ==
    CASE outcome = "ok200" -> [succ |-> succ + 1, failed |-> failed]
      [] outcome = "undecodable200" -> [succ |-> succ + 1, failed |-> failed + 1]
      [] outcome = "status" -> [succ |-> succ, failed |-> failed + 1]
      [] OTHER -> [succ |-> succ, failed |-> failed]

\* collect_batch
CollectBatchCounts(outcome, succ, failed) ==
    CASE outcome = "ok200" -> [succ |-> succ + 1, failed |-> failed]
      [] outcome = "undecodable200" -> [succ |-> succ + 1, failed |-> failed + 1]
      [] OTHER -> [succ |-> succ, failed |-> failed + 1]

\* mutant: total_requests incremented after requests.get returns, so a
\* transport exception skips it
CollectBatch_total_on_response ==
    /\ script = "aiagent"
    /\ pc = "loop"
    /\ ~collection_complete
    /\ \E outcome \in FetchOutcomes, payload \in Payloads :
         /\ (outcome # "ok200" => payload = None)
         /\ total_requests' = IF outcome = "exception" THEN total_requests
                               ELSE total_requests + 1
         /\ LET c == CollectBatchCounts(outcome, successful_requests, failed_requests)
            IN /\ successful_requests' = c.succ
               /\ failed_requests' = c.failed
         /\ data' = payload
         /\ hist' = Append(hist, HistTag(outcome, payload))
    /\ pre' = Snapshot
    /\ pc' = "collected"
    /\ UNCHANGED <<script, max_requests, base_delay, token, data_store,
                   quality_scores, delay_multiplier, delay, i, iterations>>
    /\ fetch_headers' = fetch_headers \cup {headers}
    /\ UNCHANGED <<headers, token_requests, assessed, delayed>>

CollectBatch ==
    /\ script = "aiagent"
    /\ pc = "loop"
    /\ ~collection_complete
    /\ \E outcome \in FetchOutcomes, payload \in Payloads :
         /\ (outcome # "ok200" => payload = None)
         /\ total_requests' = total_requests + 1
         /\ LET c == CollectBatchCounts(outcome, successful_requests, failed_requests)
            IN /\ successful_requests' = c.succ
               /\ failed_requests' = c.failed
         /\ data' = payload
         /\ hist' = Append(hist, HistTag(outcome, payload))
    /\ pre' = Snapshot
    /\ pc' = "collected"
    /\ UNCHANGED <<script, max_requests, base_delay, token, data_store,
                   quality_scores, delay_multiplier, delay, i, iterations>>
    /\ fetch_headers' = fetch_headers \cup {headers}
    /\ UNCHANGED <<headers, token_requests, assessed, delayed>>

\* run_collection, lines 95-98
HandleBatchStore(store, d) ==
    LET p == process_data(d)
    IN IF validate_data(p.records) THEN store_data(store, p.records) ELSE store

HandleBatch ==
    /\ script = "aiagent"
    /\ pc = "collected"
    /\ IF Truthy(data)
       THEN IF process_data(data).raised
            THEN pc' = "crashed" /\ UNCHANGED data_store
            ELSE pc' = "assess" /\ data_store' = HandleBatchStore(data_store, data)
       ELSE pc' = "assess" /\ UNCHANGED data_store
    /\ UNCHANGED <<script, max_requests, base_delay, token, stats,
                   quality_scores, delay_multiplier, data, delay, i,
                   iterations, pre, hist>>
    /\ UNCHANGED <<headers, token_requests, fetch_headers, assessed, delayed>>

AssessPerformance ==
    /\ script = "aiagent"
    /\ pc = "assess"
    /\ LET rate == get_success_rate(total_requests, successful_requests)
       IN /\ quality_scores' = assess_data_quality(data_store, quality_scores).scores
          /\ delay_multiplier' = assess_performance_multiplier(delay_multiplier, rate)
    /\ pc' = "delay"
    /\ UNCHANGED <<script, max_requests, base_delay, token, data_store, stats,
                   data, delay, i, iterations, pre, hist>>
    /\ assessed' = assessed + 1
    /\ UNCHANGED <<headers, token_requests, fetch_headers, delayed>>

RespectfulDelay ==
    /\ script = "aiagent"
    /\ pc = "delay"
    /\ \E jitter \in Jitters :
         delay' = computeDelay(base_delay, delay_multiplier, jitter)
    /\ pc' = "sleeping"
    /\ UNCHANGED <<script, max_requests, base_delay, token, data_store, stats,
                   quality_scores, delay_multiplier, data, i, iterations,
                   pre, hist>>
    /\ delayed' = delayed + 1
    /\ UNCHANGED <<headers, token_requests, fetch_headers, assessed>>

\* time.sleep(delay) returns; the iteration is complete
WakeUp ==
    /\ script = "aiagent"
    /\ pc = "sleeping"
    /\ delay' = NoDelay
    /\ iterations' = iterations + 1
    /\ pc' = "loop"
    /\ UNCHANGED <<script, max_requests, base_delay, token, data_store, stats,
                   quality_scores, delay_multiplier, data, i, pre, hist>>
    /\ UNCHANGED <<headers, token_requests, fetch_headers, assessed, delayed>>

\* mutant: the loop is left as soon as the ceiling is reached, before the
\* last delay
GenerateFinalReport_before_delay ==
    /\ script = "aiagent"
    /\ pc = "delay"
    /\ collection_complete
    /\ pc' = "complete"
    /\ UNCHANGED <<script, max_requests, base_delay, token, data_store, stats,
                   quality_scores, delay_multiplier, data, delay, i,
                   iterations, pre, hist>>
    /\ UNCHANGED <<headers, token_requests, fetch_headers, assessed, delayed>>

GenerateFinalReport ==
    /\ script = "aiagent"
    /\ pc = "loop"
    /\ collection_complete
    /\ pc' = "complete"
    /\ UNCHANGED <<script, max_requests, base_delay, token, data_store, stats,
                   quality_scores, delay_multiplier, data, delay, i,
                   iterations, pre, hist>>
    /\ UNCHANGED <<headers, token_requests, fetch_headers, assessed, delayed>>

\* ------------------------------------- spotify_agent_with_reports.py actions
\* get_token has no try/except: a failed POST or a body without
\* access_token raises out of collect_data before the loop
CollectDataGetToken ==
    /\ script = "reports"
    /\ pc = "start"
    /\ \E tok \in {"tok", NoToken} :
         /\ token' = tok
         /\ pc' = IF tok # NoToken THEN "loop" ELSE "aborted"
    /\ UNCHANGED <<script, max_requests, base_delay, data_store, stats,
                   quality_scores, delay_multiplier, data, delay, i,
                   iterations, pre, hist>>
    /\ token_requests' = token_requests + 1
    /\ UNCHANGED <<headers, fetch_headers, assessed, delayed>>

SongItem(n) == [name |-> "Song " \o ToString(n),
                artist |-> "Artist " \o ToString(n),
                id |-> "id_" \o ToString(n)]

CollectDataIteration ==
    /\ script = "reports"
    /\ pc = "loop"
    /\ i < max_requests
    /\ data_store' = Append(data_store, SongItem(i))
    /\ total_requests' = total_requests + 1
    /\ successful_requests' = successful_requests + 1
    /\ quality_scores' = Append(quality_scores, One)
    /\ i' = i + 1
    /\ iterations' = iterations + 1
    /\ pre' = Snapshot
    /\ hist' = Append(hist, "single_valid")
    /\ UNCHANGED <<script, pc, max_requests, base_delay, token,
                   failed_requests, delay_multiplier, data, delay>>
    /\ delayed' = delayed + 1
    /\ UNCHANGED <<headers, token_requests, fetch_headers, assessed>>

CollectDataFinish ==
    /\ script = "reports"
    /\ pc = "loop"
    /\ i >= max_requests
    /\ pc' = "complete"
    /\ UNCHANGED <<script, max_requests, base_delay, token, data_store, stats,
                   quality_scores, delay_multiplier, data, delay, i,
                   iterations, pre, hist>>
    /\ UNCHANGED <<headers, token_requests, fetch_headers, assessed, delayed>>

Next ==
    \/ GetToken
    \/ CollectBatch
    \/ HandleBatch
    \/ AssessPerformance
    \/ RespectfulDelay
    \/ WakeUp
    \/ GenerateFinalReport
    \/ CollectDataGetToken
    \/ CollectDataIteration
    \/ CollectDataFinish

Spec == Init /\ [][Next]_vars

\* a single-threaded script always takes its next step
FairSpec == Spec /\ WF_vars(Next)

Running == {"loop", "collected", "assess", "delay", "sleeping"}

TypeOK ==
    /\ pc \in {"start", "aborted", "crashed", "complete"} \cup Running
    /\ total_requests \in 0..MaxRequests
    /\ successful_requests \in 0..MaxRequests
    /\ failed_requests \in 0..MaxRequests
    /\ iterations \in 0..MaxRequests
\* ================================================================ claims
Terminal == {"aborted", "crashed", "complete"}

IterationDone == pc \in {"loop", "complete"}

SuccessRate == get_success_rate(total_requests, successful_requests)

AllHist(tags) == \A k \in 1..Len(hist) : hist[k] \in tags

InUnit(q) == RLeq(Zero, q) /\ RLeq(q, One)

\* an item from which process_data cannot take `name` or `artist`
LacksNameOrArtist(a) ==
    \/ "name" \notin DOMAIN a
    \/ "artists" \notin DOMAIN a
    \/ Len(a.artists) = 0
    \/ "name" \notin DOMAIN a.artists[1]

HasIncompleteRecord(d) ==
    d.kind = "albums" /\ \E k \in 1..Len(d.items) : LacksNameOrArtist(d.items[k])

\* C1: after every completed loop iteration, whatever the fetch outcomes
\* were, successful_requests + failed_requests = total_requests.
C1_StatsBalanced ==
    IterationDone => successful_requests + failed_requests = total_requests

\* C2: with a positive max_requests and a token, the run is COMPLETE only
\* with total_requests = max_requests, it does not leave RUNNING while
\* total_requests < max_requests, and total_requests never exceeds
\* max_requests.
C2_CompleteExactlyAtMax ==
    (max_requests > 0 /\ token # NoToken) =>
        /\ total_requests <= max_requests
        /\ (pc = "complete" => total_requests = max_requests)
        /\ (total_requests < max_requests => pc \in Running)

\* C3: once the token is obtained no error escapes run_collection: the run
\* never ends by a raised exception, for every fetch outcome and payload.
C3_NoErrorEscapes ==
    (script = "aiagent" /\ token # NoToken) => pc # "crashed"

\* C4: when token acquisition fails the run is ABORTED without starting the
\* loop: no fetch issued, all counters 0, quality_scores and store empty,
\* and (ABORTED being a state with no successor) COMPLETE is never reached.
C4_TokenFailureAborts ==
    (pc # "start" /\ token = NoToken) =>
        /\ pc = "aborted"
        /\ hist = <<>>
        /\ iterations = 0
        /\ total_requests = 0
        /\ successful_requests = 0
        /\ failed_requests = 0
        /\ quality_scores = <<>>
        /\ data_store = <<>>

C4_Witness ==
    /\ script = "aiagent"
    /\ pc = "aborted"
    /\ token = NoToken
    /\ max_requests > 0

C6_OneScorePerCycle ==
    IterationDone =>
        /\ Len(quality_scores) = iterations
        /\ \A k \in 1..Len(quality_scores) : InUnit(quality_scores[k])

\* C7: if max_requests = n >= 1 and every fetch succeeded with exactly one
\* valid record, then at COMPLETE the store has n records, quality_scores
\* has n entries all 1.0, successful = total = n and failed = 0.
C7_AllSingleValid ==
    (pc = "complete" /\ max_requests >= 1 /\ AllHist({"single_valid"})) =>
        /\ Len(data_store) = max_requests
        /\ Len(quality_scores) = max_requests
        /\ \A k \in 1..Len(quality_scores) : quality_scores[k] = One
        /\ successful_requests = max_requests
        /\ total_requests = max_requests
        /\ failed_requests = 0

C7_Witness ==
    /\ script = "aiagent"
    /\ pc = "complete"
    /\ max_requests = MaxRequests
    /\ AllHist({"single_valid"})
    /\ Len(data_store) = MaxRequests

\* C8: in every iteration whose success rate after the fetch is below 0.5,
\* delay_multiplier at the end of the iteration is twice its value at the
\* start of the iteration.
C8_LowRateDoubles ==
    (script = "aiagent" /\ hist # <<>>
        /\ pc \in {"delay", "sleeping", "loop", "complete"}
        /\ RLess(SuccessRate, BackoffThreshold)) =>
        delay_multiplier = RMul(pre.dm, Rat(2, 1))

C8_Witness ==
    /\ script = "aiagent"
    /\ pc = "loop"
    /\ iterations = 2
    /\ successful_requests = 0
    /\ pre.dm = Rat(2, 1)
    /\ delay_multiplier = Rat(4, 1)

\* C9: if every fetch fails (non-200 status or transport exception) the run
\* is not cut short and does not go past the ceiling: it ends, and it ends
\* COMPLETE with failed = total = max_requests, successful = 0 and an empty
\* store.
C9_AllFailedState ==
    (script = "aiagent" /\ token # NoToken
        /\ AllHist({"status", "exception"})) =>
        /\ pc \notin {"crashed", "aborted"}
        /\ successful_requests = 0
        /\ data_store = <<>>
        /\ failed_requests = total_requests
        /\ total_requests = Len(hist)
        /\ total_requests <= max_requests
        /\ (pc = "complete" => failed_requests = max_requests)

\* Steps left before the run ends: every step of the run lowers it, and a
\* run that has not ended can always take a step, so under the fairness of
\* FairSpec every run ends.
StepsLeft ==
    IF pc \in Terminal THEN 0
    ELSE IF pc = "start" THEN 5 * max_requests + 7
    ELSE 5 * (max_requests - total_requests) + 1
         + (CASE pc = "collected" -> 4
              [] pc = "assess" -> 3
              [] pc = "delay" -> 2
              [] pc = "sleeping" -> 1
              [] OTHER -> 0)

C9_PersistentFailure ==
    /\ []C9_AllFailedState
    /\ [](StepsLeft >= 0 /\ (pc \notin Terminal => ENABLED Next))
    /\ [][StepsLeft' < StepsLeft]_vars

C9_Witness ==
    /\ script = "aiagent"
    /\ pc = "complete"
    /\ max_requests = MaxRequests
    /\ AllHist({"status", "exception"})
    /\ failed_requests = MaxRequests
    /\ \E k \in 1..Len(hist) : hist[k] = "exception"

\* C10: the delay respectful_delay sleeps for lies within
\* [base_delay * delay_multiplier * 0.5, base_delay * delay_multiplier * 1.5]
\* for the delay_multiplier current at the call.
C10_DelayWithinJitter ==
    pc = "sleeping" =>
        /\ RLeq(RMul(RMul(base_delay, delay_multiplier), JitterLow), delay)
        /\ RLeq(delay, RMul(RMul(base_delay, delay_multiplier), JitterHigh))

C10_Witness ==
    /\ pc = "sleeping"
    /\ delay_multiplier = Rat(4, 1)
    /\ base_delay = Rat(5, 2)
    /\ delay = Rat(15, 1)

LastHist(tags) == hist # <<>> /\ hist[Len(hist)] \in tags

AfterHandling == pc \in {"assess", "delay", "sleeping", "loop", "complete"}

RecordOf(a) == [name |-> a.name, artist |-> a.artists[1].name, id |-> a.id]

RecordsOf(items) == [k \in 1..Len(items) |-> RecordOf(items[k])]

IsPrefix(s, t) == Len(s) <= Len(t) /\ SubSeq(t, 1, Len(s)) = s

\* C11: when a successful fetch returns a payload in which some item lacks
\* `name`, `id` or a usable `artists`, the item is skipped without an error
\* and the Records of the well-formed items of the payload are produced
\* (and, all being valid, stored).
C11_MalformedItemsSkipped ==
    (script = "aiagent" /\ pc # "collected" /\ data.kind = "albums"
        /\ \E k \in 1..Len(data.items) : ~WellFormed(data.items[k])) =>
        /\ pc # "crashed"
        /\ data_store = pre.store \o RecordsOf(SelectSeq(data.items, WellFormed))

\* C12: in run_collection the speed-up branch never fires: delay_multiplier
\* is never multiplied by 0.8, never decreases from one state to the next,
\* is always >= 1.0, and is unchanged by an iteration whose success rate
\* is >= 0.5.
C12_MultiplierState ==
    script = "aiagent" =>
        /\ RLeq(InitialDelayMultiplier, delay_multiplier)
        /\ (hist # <<>> /\ pc \in {"delay", "sleeping", "loop", "complete"}
              /\ ~RLess(SuccessRate, BackoffThreshold)) =>
               delay_multiplier = pre.dm

C12_SpeedupNeverFires ==
    /\ []C12_MultiplierState
    /\ [][/\ RLeq(delay_multiplier, delay_multiplier')
          /\ delay_multiplier' \in {delay_multiplier,
                                    RMul(delay_multiplier, Rat(2, 1))}]_vars

C12_Witness ==
    /\ script = "aiagent"
    /\ pc = "complete"
    /\ total_requests = MaxRequests
    /\ successful_requests = MaxRequests
    /\ RLess(SpeedupThreshold, SuccessRate)
    /\ delay_multiplier = InitialDelayMultiplier

\* C13: the loop is strictly sequential: a fetch starts only when the
\* iteration of the fetch before it is complete, each fetch is followed by
\* one assessment and then one delay, and the run completes only after the
\* delay of the last fetch.
C13_StrictlySequential ==
    script = "aiagent" =>
        /\ iterations <= delayed
        /\ delayed <= assessed
        /\ assessed <= Len(hist)
        /\ Len(hist) <= iterations + 1
        /\ (pc \in {"loop", "complete"} =>
              /\ assessed = Len(hist)
              /\ delayed = Len(hist)
              /\ iterations = Len(hist))
        /\ (pc = "sleeping" => delayed = Len(hist))

C13_Witness ==
    /\ script = "aiagent"
    /\ pc = "complete"
    /\ Len(hist) = MaxRequests
    /\ assessed = MaxRequests
    /\ delayed = MaxRequests

\* C14: on a failed fetch (non-200 status or transport exception) the
\* iteration adds one to failed_requests, leaves successful_requests and the
\* store as they were, yields no records, and still goes through the
\* assessment and the delay.
C14_FailedFetchFrame ==
    (script = "aiagent" /\ LastHist({"status", "exception"})) =>
        /\ failed_requests = pre.failed + 1
        /\ successful_requests = pre.succ
        /\ total_requests = pre.total + 1
        /\ data_store = pre.store
        /\ data = None
        /\ pc \in Running \cup {"complete"}
        /\ (IterationDone => assessed = Len(hist) /\ delayed = Len(hist))

C14_Witness ==
    /\ script = "aiagent"
    /\ pc = "loop"
    /\ LastHist({"status"})
    /\ iterations = 2
    /\ pre.succ = 1
    /\ data_store # <<>>
    /\ failed_requests = 1

\* C15: the store is append-only without deduplication: the store of a
\* state is a prefix of the store of the next, an accepted batch is appended
\* whole and in order, and a record whose id is already stored is appended
\* again.
C15_BatchAppended ==
    (script = "aiagent" /\ AfterHandling /\ LastHist({"single_valid", "ok_other"})
        /\ data.kind = "albums") =>
        data_store = pre.store \o RecordsOf(data.items)

C15_AppendOnly ==
    /\ []C15_BatchAppended
    /\ [][IsPrefix(data_store, data_store')]_vars

C15_Witness ==
    /\ script = "aiagent"
    /\ AfterHandling
    /\ Len(pre.store) >= 1
    /\ Len(data_store) = Len(pre.store) + 2
    /\ \E j \in 1..Len(pre.store) :
          data_store[Len(data_store)].id = pre.store[j].id

\* C16: every iteration adds exactly one to total_requests at the fetch,
\* whether the fetch succeeds, fails with a status or raises; after k
\* completed iterations total_requests = k.
C16_TotalCountsIterations ==
    /\ total_requests = Len(hist)
    /\ (IterationDone => total_requests = iterations)
    /\ (pc \in {"collected", "assess", "delay", "sleeping", "crashed"} =>
          /\ total_requests = pre.total + 1
          /\ total_requests = iterations + 1)

C16_Witness ==
    /\ script = "aiagent"
    /\ pc = "complete"
    /\ iterations = 2
    /\ total_requests = 2
    /\ {hist[k] : k \in 1..Len(hist)} = {"exception", "single_valid"}

\* C17: every record of the store has `name` and `artist` in every
\* reachable state, and every score in quality_scores is 1.0.
C17_StoreCompleteScoresOne ==
    /\ \A k \in 1..Len(data_store) : Complete(data_store[k])
    /\ \A k \in 1..Len(quality_scores) : quality_scores[k] = One

C17_Witness ==
    /\ script = "aiagent"
    /\ pc = "complete"
    /\ Len(hist) = 2
    /\ failed_requests = 1
    /\ Len(quality_scores) = 2
    /\ Len(data_store) = 2

\* C18: always 0 <= successful_requests <= total_requests and
\* 0 <= failed_requests <= total_requests, no counter ever decreases, and
\* the success rate lies within [0,1].
C18_CounterRanges ==
    /\ 0 <= successful_requests
    /\ successful_requests <= total_requests
    /\ 0 <= failed_requests
    /\ failed_requests <= total_requests
    /\ InUnit(SuccessRate)

C18_CountersBounded ==
    /\ []C18_CounterRanges
    /\ [][/\ total_requests' >= total_requests
          /\ successful_requests' >= successful_requests
          /\ failed_requests' >= failed_requests]_vars

C18_Witness ==
    /\ script = "aiagent"
    /\ pc = "complete"
    /\ total_requests = 2
    /\ successful_requests = 2
    /\ failed_requests = 1

\* C19: the token is requested exactly once per run, before the first
\* fetch; every fetch carries that token; no fetch outcome leads to a
\* second request.
C19_TokenRequestedOnce ==
    /\ (pc = "start" => token_requests = 0 /\ hist = <<>> /\ fetch_headers = {})
    /\ (pc # "start" => token_requests = 1)
    /\ ((script = "aiagent" /\ hist # <<>>) =>
          token # NoToken /\ fetch_headers = {token})

C19_Witness ==
    /\ script = "aiagent"
    /\ pc = "loop"
    /\ iterations = 2
    /\ AllHist({"status", "exception"})
    /\ token_requests = 1
    /\ fetch_headers = {"tok"}
====
